---- MODULE Spec2Model ----
(***************************************************************************)
(* A model of score/scorer.py: PropertyScorer.__init__ / _validate,        *)
(* _aggregate, _raw, _qual and score_property.                             *)
(*                                                                         *)
(* Numbers.  Python floats appear in two roles:                            *)
(*   - raw measurements, targets, bounds, tolerance, epsilon ("raw         *)
(*     units"): modelled as integer-valued binary floats with a            *)
(*     significand of MantBits bits; every addition and subtraction the    *)
(*     code performs on them is rounded to nearest, ties to even (fl);     *)
(*   - scores in the unit interval (r, qn, fs, the result): fixed point,   *)
(*     the integer v standing for v / ONE, divisions rounded down.         *)
(* Where the source binds a local once and reads it several times, the     *)
(* model passes it as a parameter of a helper operator.                    *)
(***************************************************************************)
EXTENDS Integers, Sequences, FiniteSets, TLC

ONE == 60

MantBits == 3

MaxFactors == 2

MaxCalls == 2

MaxLen == 3

Max(a, b) == IF a >= b THEN a ELSE b

Min(a, b) == IF a <= b THEN a ELSE b

Abs(a) == IF a < 0 THEN -a ELSE a

Sign(a) == IF a < 0 THEN -1 ELSE 1

RECURSIVE IPow(_, _)
IPow(b, n) == IF n = 0 THEN 1 ELSE b * IPow(b, n - 1)

(* Spacing of the floats around magnitude n: the least power of two q with *)
(* n < 2^MantBits * q.                                                     *)
RECURSIVE Ulp(_, _)
Ulp(n, q) == IF n < IPow(2, MantBits) * q THEN q ELSE Ulp(n, 2 * q)

(* The integer nearest to n / d (n >= 0, d > 0), ties to the even one:     *)
(* m is the quotient rounded down, rem2 twice the remainder.               *)
RoundQuot(m, rem2, d) ==
    IF rem2 < d THEN m ELSE IF rem2 > d THEN m + 1 ELSE m + (m % 2)

RoundDiv(n, d) == RoundQuot(n \div d, 2 * (n % d), d)

RoundTo(n, q) == q * RoundDiv(n, q)

RoundMag(n) == RoundTo(n, Ulp(n, 1))

(* Round-to-nearest-even of an exact result, as every float operation does. *)
fl(n) == Sign(n) * RoundMag(Abs(n))

FAdd(a, b) == fl(a + b)

FSub(a, b) == fl(a - b)

(* a / b for raw-unit a >= 0, b > 0, as a fixed-point score. *)
FDiv(a, b) == (a * ONE) \div b

(* The float nearest to the exact quotient n / d (n >= 0, d > 0).          *)
RoundRatTo(n, d, q) == fl(q * RoundDiv(n, d * q))

RoundRat(n, d) == RoundRatTo(n, d, Ulp(n \div d, 1))

(* The k-th root of n, rounded down. *)
Root(n, k) == CHOOSE m \in 0..(ONE + 1) : IPow(m, k) <= n /\ IPow(m + 1, k) > n

(* A faulty power: a zero base gives 0 for every exponent, also for 0.     *)
Pow_zero_base(b, num, den) ==
    IF b = 0 THEN 0
    ELSE IF num = 0 THEN ONE
    ELSE IF num = den THEN b
    ELSE Root(IPow(b, num) * IPow(ONE, den - num), den)

(* b ** (num/den) on fixed-point b; Python: x ** 0.0 = 1.0 for every x     *)
(* (also 0.0 ** 0.0), x ** 1.0 = x, 0.0 ** y = 0.0 for y > 0.              *)
Pow(b, num, den) ==
    IF num = 0 THEN ONE
    ELSE IF num = den THEN b
    ELSE IF b = 0 THEN 0
    ELSE Root(IPow(b, num) * IPow(ONE, den - num), den)

(* math.exp on fixed-point x >= 0: the Taylor series, every term rounded   *)
(* down, summed until the terms vanish.                                    *)
RECURSIVE ExpSum(_, _, _)
ExpSum(x, k, term) ==
    IF term = 0 THEN 0
    ELSE term + ExpSum(x, k + 1, (term * x) \div (k * ONE))

Exp(x) == ExpSum(x, 1, ONE)

(***************************************************************************)
(* Factor configs.  A config is a Python dict: `keys` is the set of keys   *)
(* it holds, the other fields are the values under those keys (a field     *)
(* whose key is absent is never read); `nulls` is the set of keys held     *)
(* with the value None.                                                    *)
(***************************************************************************)
ALLOWED_AGG == {"mean", "median", "min", "max", "k_nearest", "k_farthest", "percentile"}

Has(cfg, k) == k \in cfg.keys

(* cfg.get("multi") and cfg.get("decay_function") as truth values. *)
IsMulti(cfg) == Has(cfg, "multi") /\ cfg.multi

IsNull(cfg, k) == Has(cfg, k) /\ k \in cfg.nulls

HasDecay(cfg) == Has(cfg, "decay_function") /\ cfg.decay_function # ""

Verdict(ok, err, cfg) == [ok |-> ok, err |-> err, cfg |-> cfg]

(* Lines 155-163 on the config with its bounds stored. *)
validate_multi(c1) ==
    IF ~IsMulti(c1) THEN Verdict(TRUE, "", c1)
    ELSE IF ~(Has(c1, "aggregation") /\ c1.aggregation \in ALLOWED_AGG)
      THEN Verdict(FALSE, "invalid aggregation", c1)
    ELSE Verdict(TRUE, "",
           [c1 EXCEPT
              !.keys = @ \cup {"nearest_k", "farthest_k", "percentile"},
              !.nearest_k = IF Has(c1, "nearest_k") THEN @ ELSE 1,
              !.farthest_k = IF Has(c1, "farthest_k") THEN @ ELSE 1,
              !.percentile = IF Has(c1, "percentile") THEN @ ELSE ONE \div 2])

(* A faulty variant: the bounds are stored without the ordering check.     *)
validate_bounds_unchecked(cfg, l, u) ==
    validate_multi([cfg EXCEPT !.keys = @ \cup {"lower", "upper"},
                               !.lower = l, !.upper = u])

(* Lines 151-153: the ordering check on the (nudged) bounds l, u. *)
validate_bounds(cfg, l, u) ==
    IF ~(l <= cfg.target /\ cfg.target <= u) THEN Verdict(FALSE, "bounds", cfg)
    ELSE validate_multi([cfg EXCEPT !.keys = @ \cup {"lower", "upper"},
                                    !.lower = l, !.upper = u])

(* A faulty variant: only a bound equal to the target is nudged.           *)
validate_nudge_equal(cfg, l, u, eps) ==
    validate_bounds(cfg,
        IF cfg.mode = "nice_to_have" /\ l = cfg.target THEN FSub(cfg.target, eps) ELSE l,
        IF cfg.mode = "nice_to_have" /\ u = cfg.target THEN FAdd(cfg.target, eps) ELSE u)

(* Lines 143-150: the auto-nudge of the bounds l, u read at 141-142. *)
validate_nudge(cfg, l, u, eps) ==
    validate_bounds(cfg,
        IF cfg.mode = "nice_to_have" /\ l >= cfg.target THEN FSub(cfg.target, eps) ELSE l,
        IF cfg.mode = "nice_to_have" /\ u <= cfg.target THEN FAdd(cfg.target, eps) ELSE u)

(* Lines 143-151 when a bound read at 141-142 is None (ln, un): the first  *)
(* comparison that reads it raises TypeError.  For a nice_to_have config   *)
(* both bounds are compared with the target (145, 148); otherwise the      *)
(* chain l <= t <= u reads l first and reads u only when l <= t.           *)
validate_nulls(cfg, l, u, eps, ln, un) ==
    IF cfg.mode = "nice_to_have"
      THEN IF un \/ ln THEN Verdict(FALSE, "TypeError", cfg)
           ELSE validate_nudge(cfg, l, u, eps)
    ELSE IF ln \/ (un /\ l <= cfg.target) THEN Verdict(FALSE, "TypeError", cfg)
    ELSE validate_nudge(cfg, l, u, eps)

(* A faulty variant: `cfg.get(k) or t`, a bound that is None or zero is    *)
(* replaced by the target.                                                 *)
validate_factor_or(cfg, eps) ==
    IF {"mode", "target", "direction", "weight"} \ cfg.keys # {}
      THEN Verdict(FALSE, "missing keys", cfg)
    ELSE IF cfg.mode \notin {"must_have", "nice_to_have", "irrelevant"}
      THEN Verdict(FALSE, "invalid mode", cfg)
    ELSE IF cfg.direction \notin {-1, 1}
      THEN Verdict(FALSE, "direction", cfg)
    ELSE IF cfg.weight <= 0
      THEN Verdict(FALSE, "weight", cfg)
    ELSE validate_nudge(cfg,
           IF Has(cfg, "lower") /\ ~IsNull(cfg, "lower") /\ cfg.lower # 0
             THEN cfg.lower ELSE cfg.target,
           IF Has(cfg, "upper") /\ ~IsNull(cfg, "upper") /\ cfg.upper # 0
             THEN cfg.upper ELSE cfg.target,
           eps)

(* A faulty variant: a zero weight is accepted.                            *)
validate_factor_zero_weight(cfg, eps) ==
    IF {"mode", "target", "direction", "weight"} \ cfg.keys # {}
      THEN Verdict(FALSE, "missing keys", cfg)
    ELSE IF cfg.mode \notin {"must_have", "nice_to_have", "irrelevant"}
      THEN Verdict(FALSE, "invalid mode", cfg)
    ELSE IF cfg.direction \notin {-1, 1}
      THEN Verdict(FALSE, "direction", cfg)
    ELSE IF cfg.weight < 0
      THEN Verdict(FALSE, "weight", cfg)
    ELSE validate_nulls(cfg,
           IF Has(cfg, "lower") THEN cfg.lower ELSE cfg.target,
           IF Has(cfg, "upper") THEN cfg.upper ELSE cfg.target,
           eps, IsNull(cfg, "lower"), IsNull(cfg, "upper"))

(* One iteration of _validate's loop.  ok = FALSE is the ValueError; cfg   *)
(* is the dict as the iteration leaves it (mutated in place).              *)
validate_factor(cfg, eps) ==
    IF {"mode", "target", "direction", "weight"} \ cfg.keys # {}
      THEN Verdict(FALSE, "missing keys", cfg)
    ELSE IF cfg.mode \notin {"must_have", "nice_to_have", "irrelevant"}
      THEN Verdict(FALSE, "invalid mode", cfg)
    ELSE IF cfg.direction \notin {-1, 1}
      THEN Verdict(FALSE, "direction", cfg)
    ELSE IF cfg.weight <= 0
      THEN Verdict(FALSE, "weight", cfg)
    ELSE validate_nulls(cfg,
           IF Has(cfg, "lower") THEN cfg.lower ELSE cfg.target,
           IF Has(cfg, "upper") THEN cfg.upper ELSE cfg.target,
           eps, IsNull(cfg, "lower"), IsNull(cfg, "upper"))

(* _validate: the factors in dict order; the first ValueError ends it and  *)
(* leaves the configs before it validated and mutated.                     *)
RECURSIVE _validate(_, _, _)
validate_step(prof, i, eps, v) ==
    IF v.ok THEN _validate([prof EXCEPT ![i] = v.cfg], i + 1, eps)
    ELSE [ok |-> FALSE, err |-> v.err, profile |-> [prof EXCEPT ![i] = v.cfg]]

_validate(prof, i, eps) ==
    IF i > Len(prof) THEN [ok |-> TRUE, err |-> "", profile |-> prof]
    ELSE validate_step(prof, i, eps, validate_factor(prof[i], eps))

(***************************************************************************)
(* Sequences of raw values.                                                *)
(***************************************************************************)
RECURSIVE SeqSum(_)
SeqSum(s) == IF s = <<>> THEN 0 ELSE Head(s) + SeqSum(Tail(s))

RECURSIVE InsertSorted(_, _)
InsertSorted(s, v) ==
    IF s = <<>> THEN <<v>>
    ELSE IF v <= Head(s) THEN <<v>> \o s
    ELSE <<Head(s)>> \o InsertSorted(Tail(s), v)

RECURSIVE sorted(_)
sorted(s) == IF s = <<>> THEN <<>> ELSE InsertSorted(sorted(Tail(s)), Head(s))

Reverse(s) == [i \in 1..Len(s) |-> s[Len(s) + 1 - i]]

(* s[:k] of Python: the first k items, all but the last -k when k < 0.     *)
Prefix(s, k) ==
    IF k >= 0 THEN SubSeq(s, 1, Min(k, Len(s)))
    ELSE SubSeq(s, 1, Max(Len(s) + k, 0))

Value(v) == [exc |-> FALSE, v |-> v]

Raised == [exc |-> TRUE, v |-> 0]

(* statistics.mean: exact, then rounded once; raises on no data.           *)
mean(s) == IF s = <<>> THEN Raised ELSE Value(RoundRat(SeqSum(s), Len(s)))

(* statistics.median of the sorted data ss. *)
median_sorted(ss, n) ==
    IF n % 2 = 1 THEN ss[(n + 1) \div 2]
    ELSE RoundRat(FAdd(ss[n \div 2], ss[n \div 2 + 1]), 2)

median(s) == median_sorted(sorted(s), Len(s))

(* numpy.percentile(a, p), linear interpolation at position pos / ONE of   *)
(* the sorted data; numpy raises for a percentile outside [0, 100].        *)
percentile_at(ss, lo, frac) ==
    RoundRat(ss[lo + 1] * ONE + frac * (ss[Min(lo + 2, Len(ss))] - ss[lo + 1]), ONE)

percentile_sorted(ss, pos) == percentile_at(ss, pos \div ONE, pos % ONE)

percentile(s, pct) ==
    IF pct < 0 \/ pct > ONE THEN Raised
    ELSE Value(percentile_sorted(sorted(s), pct * (Len(s) - 1)))

(***************************************************************************)
(* _decay_weights, _weighted_average (lines 14-49).                        *)
(***************************************************************************)
(* abs(v - t) / rng with rng = max(u - l, 1e-12): over 1e-12 a distance is *)
(* 0 or huge.                                                              *)
decay_dist(a, rng) == IF rng >= 1 THEN FDiv(a, rng) ELSE a * ONE * ONE

(* The weight of a value at scaled distance rd = rate * d. *)
decay_fn(fn, rd) ==
    IF fn = "exp" THEN (ONE * ONE) \div Exp(rd)
    ELSE IF fn = "quadratic" THEN Max(0, ONE - (rd * rd) \div ONE)
    ELSE Max(0, ONE - rd)

decay_weights_with(vals, cfg, rate, rng) ==
    [i \in 1..Len(vals) |->
        decay_fn(cfg.decay_function,
                 (rate * decay_dist(Abs(FSub(vals[i], cfg.target)), rng)) \div ONE)]

_decay_weights(vals, cfg) ==
    decay_weights_with(vals, cfg,
        IF Has(cfg, "decay_rate") THEN cfg.decay_rate ELSE ONE,
        FSub(cfg.upper, cfg.lower))

(* sum(v * w for v, w in zip(values, weights)) over the first n items:     *)
(* every product and every partial sum is a float operation.               *)
RECURSIVE weighted_sum(_, _, _)
weighted_sum(values, weights, n) ==
    IF n = 0 THEN 0
    ELSE FAdd(weighted_sum(values, weights, n - 1),
              RoundRat(values[n] * weights[n], ONE))

weighted_average_with(values, weights, total_w) ==
    IF total_w # 0
      THEN Value(RoundRat(weighted_sum(values, weights, Len(values)) * ONE, total_w))
      ELSE mean(values)

(* A faulty variant: no fallback to the plain mean, a zero total weight     *)
(* divides by zero.                                                        *)
weighted_average_no_fallback(values, weights) ==
    IF SeqSum(weights) # 0
      THEN weighted_average_with(values, weights, SeqSum(weights))
      ELSE Raised

_weighted_average(values, weights) ==
    weighted_average_with(values, weights, SeqSum(weights))

(***************************************************************************)
(* _aggregate (lines 165-201): none = TRUE is the None it returns, exc =   *)
(* TRUE an exception raised by the aggregation.                            *)
(***************************************************************************)
(* A faulty variant: the collection is aggregated unfiltered.              *)
InBand_unfiltered(vals, cfg) == vals

InBand(vals, cfg) == SelectSeq(vals, LAMBDA v : cfg.lower <= v /\ v <= cfg.upper)

Some(m) == [none |-> FALSE, exc |-> m.exc, v |-> m.v]

aggregate_flat(in_band, cfg, agg) ==
    IF agg = "mean" THEN mean(in_band)
    ELSE IF agg = "median" THEN Value(median(in_band))
    ELSE IF agg = "min" THEN Value(sorted(in_band)[1])
    ELSE IF agg = "max" THEN Value(Reverse(sorted(in_band))[1])
    ELSE IF agg = "k_nearest" THEN mean(Prefix(sorted(in_band), cfg.nearest_k))
    ELSE IF agg = "k_farthest"
      THEN mean(Prefix(Reverse(sorted(in_band)), cfg.farthest_k))
    ELSE IF agg = "percentile" THEN percentile(in_band, cfg.percentile)
    ELSE mean(in_band)

aggregate_in_band(in_band, cfg) ==
    IF in_band = <<>> THEN [none |-> TRUE, exc |-> FALSE, v |-> 0]
    ELSE IF HasDecay(cfg)
      THEN Some(_weighted_average(in_band, _decay_weights(in_band, cfg)))
    ELSE Some(aggregate_flat(in_band, cfg,
                 IF Has(cfg, "aggregation") THEN cfg.aggregation ELSE ""))

_aggregate(vals, cfg) == aggregate_in_band(InBand(vals, cfg), cfg)

(***************************************************************************)
(* _raw (lines 203-234): the raw-match of one value, fixed point.          *)
(***************************************************************************)
raw_must_have(x, d, t, tol) ==
    IF d < 0 THEN
      IF x <= t THEN ONE
      ELSE IF tol # 0 /\ x <= FAdd(t, tol) THEN ONE - FDiv(FSub(x, t), tol)
      ELSE 0
    ELSE
      IF x >= t THEN ONE
      ELSE IF tol # 0 /\ x >= FSub(t, tol) THEN ONE - FDiv(FSub(t, x), tol)
      ELSE 0

(* A faulty variant: the division is reached without the band test.        *)
nice_division_unbanded(x, d, t, l, u) ==
    IF d < 0 THEN IF x <= t THEN <<>> ELSE <<FSub(u, t)>>
    ELSE IF x >= t THEN <<>> ELSE <<FSub(t, l)>>

(* Lines 225-232: the denominator of the division the nice_to_have branch  *)
(* performs on x, <<>> when it performs none.                              *)
nice_division(x, d, t, l, u) ==
    IF x < l \/ x > u THEN <<>>
    ELSE IF d < 0 THEN IF x <= t THEN <<>> ELSE <<FSub(u, t)>>
    ELSE IF x >= t THEN <<>> ELSE <<FSub(t, l)>>

(* A faulty variant: the decay inside the band is not floored.             *)
raw_nice_no_floor(x, d, t, l, u, r_floor) ==
    IF x < l \/ x > u THEN 0
    ELSE IF d < 0
      THEN IF x <= t THEN ONE ELSE ONE - FDiv(FSub(x, t), FSub(u, t))
      ELSE IF x >= t THEN ONE ELSE ONE - FDiv(FSub(t, x), FSub(t, l))

(* A faulty variant: the floor is applied outside the band too.            *)
raw_nice_floor_everywhere(x, d, t, l, u, r_floor) ==
    Max(r_floor,
        IF x < l \/ x > u THEN 0
        ELSE IF d < 0
          THEN IF x <= t THEN ONE ELSE ONE - FDiv(FSub(x, t), FSub(u, t))
          ELSE IF x >= t THEN ONE ELSE ONE - FDiv(FSub(t, x), FSub(t, l)))

raw_nice_to_have(x, d, t, l, u, r_floor) ==
    IF x < l \/ x > u THEN 0
    ELSE Max(r_floor,
             IF d < 0
               THEN IF x <= t THEN ONE ELSE ONE - FDiv(FSub(x, t), FSub(u, t))
               ELSE IF x >= t THEN ONE ELSE ONE - FDiv(FSub(t, x), FSub(t, l)))

_raw(x, cfg, sc) ==
    IF cfg.mode = "must_have"
      THEN raw_must_have(x, cfg.direction, cfg.target, sc.tol)
      ELSE raw_nice_to_have(x, cfg.direction, cfg.target, cfg.lower, cfg.upper,
                            sc.r_floor)

(***************************************************************************)
(* _qual (lines 236-245): exc = TRUE is the ZeroDivisionError of a float   *)
(* division by 0.0.                                                        *)
(***************************************************************************)
(* Lines 243-245 on norm. *)
qual_warp(norm, sc, den2) ==
    IF sc.qual_exp = ONE
      THEN Value(sc.q_floor + ((ONE - sc.q_floor) * norm) \div ONE)
    ELSE IF den2 = 0 THEN Raised
    ELSE Value(sc.q_floor
               + ((ONE - sc.q_floor)
                  * (((Exp((sc.qual_exp * norm) \div ONE) - ONE) * ONE) \div den2))
                 \div ONE)

(* A faulty variant: the rating scale is taken to have max_quality steps.  *)
qual_norm_off_by_one(qc, sc) ==
    IF sc.max_quality = 0 THEN Raised
    ELSE qual_warp(((qc - 1) * ONE) \div sc.max_quality, sc, Exp(sc.qual_exp) - ONE)

(* Line 242 on the clamped rating qc. *)
qual_norm(qc, sc) ==
    IF sc.max_quality - 1 = 0 THEN Raised
    ELSE qual_warp(((qc - 1) * ONE) \div (sc.max_quality - 1), sc,
                   Exp(sc.qual_exp) - ONE)

_qual(q, sc) == qual_norm(Max(1, Min(q, sc.max_quality)), sc)

(***************************************************************************)
(* One iteration of score_property's loop (lines 268-317) on factor config *)
(* cfg, raw value val and quality rating qv.  A raw value is               *)
(* [kind, v]: kind "none" (absent or None), "num" (v = <<x>>) or "list"    *)
(* (v the list); a rating is <<>> (absent or None) or <<q>>.               *)
(* The outcome's kind: "irrelevant", "missing", "notlist" (the three       *)
(* `continue`s), "veto" (return 0.0), "raised" (an exception leaves the    *)
(* call) or "scored" (the factor is added to both sums).  cplx: Python     *)
(* gives a complex number for a negative float to a fractional power.      *)
(***************************************************************************)
Outcome(kind, r, qn, fs, cplx) ==
    [kind |-> kind, r |-> r, qn |-> qn, fs |-> fs, cplx |-> cplx]

(* A faulty blend: the weighted arithmetic mean of r and qn.               *)
blend_linear(r, qn, qw) ==
    Outcome("scored", r, qn, ((qw.den - qw.num) * r + qw.num * qn) \div qw.den, FALSE)

(* Line 312: (r ** (1 - q_weight)) * (qn ** q_weight). *)
blend(r, qn, qw) ==
    IF r < 0 /\ qw.num # 0 /\ qw.num # qw.den THEN Outcome("scored", r, qn, 0, TRUE)
    ELSE Outcome("scored", r, qn,
                 (Pow(r, qw.den - qw.num, qw.den) * Pow(qn, qw.num, qw.den)) \div ONE,
                 FALSE)

blend_qual(r, q, sc) ==
    IF q.exc THEN Outcome("raised", r, 0, 0, FALSE) ELSE blend(r, q.v, sc.q_weight)

(* A faulty variant: an absent rating is read as the best rating.          *)
score_blend_default_rating(r, qv, sc) ==
    blend_qual(r, _qual(IF qv = <<>> THEN sc.max_quality ELSE qv[1], sc), sc)

(* Lines 306-314. *)
score_blend(r, qv, sc) ==
    IF qv = <<>> THEN Outcome("scored", r, 0, r, FALSE)
    ELSE blend_qual(r, _qual(qv[1], sc), sc)

(* Lines 300-304, then the blend. *)
score_raw(cfg, r, qv, sc) ==
    IF cfg.mode = "must_have" /\ r = 0 THEN Outcome("veto", r, 0, 0, FALSE)
    ELSE score_blend(r, qv, sc)

(* A faulty variant: a factor whose aggregate is None is skipped.          *)
score_aggregated_skip(cfg, x_agg, qv, sc) ==
    IF x_agg.none THEN Outcome("missing", 0, 0, 0, FALSE)
    ELSE IF x_agg.exc THEN Outcome("raised", 0, 0, 0, FALSE)
    ELSE score_raw(cfg, _raw(x_agg.v, cfg, sc), qv, sc)

(* Lines 287-288 on the aggregator's answer. *)
score_aggregated(cfg, x_agg, qv, sc) ==
    IF x_agg.none THEN score_raw(cfg, 0, qv, sc)
    ELSE IF x_agg.exc THEN Outcome("raised", 0, 0, 0, FALSE)
    ELSE score_raw(cfg, _raw(x_agg.v, cfg, sc), qv, sc)

(* A faulty variant: an irrelevant factor is scored like a nice_to_have    *)
(* one.                                                                    *)
score_factor_no_skip(cfg, val, qv, sc) ==
    IF val.kind = "none" THEN Outcome("missing", 0, 0, 0, FALSE)
    ELSE IF IsMulti(cfg)
      THEN IF val.kind # "list" THEN Outcome("notlist", 0, 0, 0, FALSE)
           ELSE score_aggregated(cfg, _aggregate(val.v, cfg), qv, sc)
    ELSE IF val.kind = "list" THEN Outcome("raised", 0, 0, 0, FALSE)
    ELSE score_raw(cfg, _raw(val.v[1], cfg, sc), qv, sc)

(* A faulty variant: a multi factor given a number scores it as a          *)
(* scalar.                                                                 *)
score_factor_scalar(cfg, val, qv, sc) ==
    IF cfg.mode = "irrelevant" THEN Outcome("irrelevant", 0, 0, 0, FALSE)
    ELSE IF val.kind = "none" THEN Outcome("missing", 0, 0, 0, FALSE)
    ELSE IF IsMulti(cfg) /\ val.kind = "list"
      THEN score_aggregated(cfg, _aggregate(val.v, cfg), qv, sc)
    ELSE IF val.kind = "list" THEN Outcome("raised", 0, 0, 0, FALSE)
    ELSE score_raw(cfg, _raw(val.v[1], cfg, sc), qv, sc)

score_factor(cfg, val, qv, sc) ==
    IF cfg.mode = "irrelevant" THEN Outcome("irrelevant", 0, 0, 0, FALSE)
    ELSE IF val.kind = "none" THEN Outcome("missing", 0, 0, 0, FALSE)
    ELSE IF IsMulti(cfg)
      THEN IF val.kind # "list" THEN Outcome("notlist", 0, 0, 0, FALSE)
           ELSE score_aggregated(cfg, _aggregate(val.v, cfg), qv, sc)
    ELSE IF val.kind = "list" THEN Outcome("raised", 0, 0, 0, FALSE) \* float(list)
    ELSE score_raw(cfg, _raw(val.v[1], cfg, sc), qv, sc)

(***************************************************************************)
(* State.                                                                  *)
(*   args    the arguments given to PropertyScorer(...): profile, the      *)
(*           profile as the caller built it, and kw, the keyword arguments *)
(*   profile the profile dict (the caller's object, mutated in place)      *)
(*   scorer  the PropertyScorer instance: state "new" before __init__,     *)
(*           "ready" after it returned, "ConfigError" after it raised      *)
(*   calls   the score_property calls on the instance, by caller           *)
(***************************************************************************)
VARIABLES args, profile, scorer, calls

vars == <<args, profile, scorer, calls>>

NewScorer ==
    [state |-> "new", err |-> "", max_quality |-> 0, q_floor |-> 0,
     q_weight |-> [num |-> 0, den |-> 1], qual_exp |-> 0, r_floor |-> 0,
     tol |-> 0, eps |-> 0]

NewCall(raw, quality) ==
    [raw |-> raw, quality |-> quality, pc |-> "idle", i |-> 0,
     total_weight |-> 0, weighted_sum |-> 0, cplx |-> FALSE, result |-> 0,
     trace |-> <<>>]

(* max(0.0, min(w, 1.0)) on a fraction num/den. *)
Clamp01Frac(w) ==
    IF w.num < 0 THEN [num |-> 0, den |-> 1]
    ELSE IF w.num > w.den THEN [num |-> 1, den |-> 1]
    ELSE w

(* __init__ lines 110-117. *)
init_fields(a) ==
    [state |-> "ready", err |-> "",
     max_quality |-> a.max_quality,
     q_floor |-> Max(0, Min(a.quality_floor, ONE)),
     q_weight |-> Clamp01Frac(a.quality_weight),
     qual_exp |-> Max(0, a.qual_exp),
     r_floor |-> Max(0, Min(a.raw_floor, ONE)),
     tol |-> a.must_have_tolerance,
     eps |-> a.margin_epsilon]

(* __init__ after _validate answered v. *)
constructed(v) ==
    /\ profile' = v.profile
    /\ scorer' = IF v.ok THEN init_fields(args.kw)
                 ELSE [NewScorer EXCEPT !.state = "ConfigError", !.err = v.err]
    /\ UNCHANGED <<args, calls>>

(* PropertyScorer(profile, **args) returns the instance. *)
Construct ==
    /\ scorer.state = "new"
    /\ _validate(profile, 1, args.kw.margin_epsilon).ok
    /\ constructed(_validate(profile, 1, args.kw.margin_epsilon))

(* PropertyScorer(profile, **args) raises ValueError: no instance. *)
ConstructFail ==
    /\ scorer.state = "new"
    /\ ~_validate(profile, 1, args.kw.margin_epsilon).ok
    /\ constructed(_validate(profile, 1, args.kw.margin_epsilon))

(* Lines 262-263: the call state on entry. *)
enter(k) == [k EXCEPT !.pc = "loop", !.i = 1, !.total_weight = 0, !.weighted_sum = 0]

(* score_property is entered. *)
Call(c) ==
    /\ scorer.state = "ready"
    /\ calls[c].pc = "idle"
    /\ calls' = [calls EXCEPT ![c] = enter(@)]
    /\ UNCHANGED <<args, profile, scorer>>

(* A faulty variant: a factor score of 0 is left out of both sums.         *)
after_factor_nonzero(k, cfg, o) ==
    [k EXCEPT
       !.trace = Append(@, o),
       !.pc = IF o.kind = "veto" THEN "done"
              ELSE IF o.kind = "raised" THEN "raised" ELSE "loop",
       !.result = IF o.kind = "veto" THEN 0 ELSE @,
       !.cplx = IF o.kind = "veto" THEN FALSE ELSE (@ \/ o.cplx),
       !.i = IF o.kind \in {"veto", "raised"} THEN @ ELSE @ + 1,
       !.weighted_sum = IF o.kind = "scored" THEN @ + cfg.weight * o.fs ELSE @,
       !.total_weight = IF o.kind = "scored" /\ o.fs # 0 THEN @ + cfg.weight ELSE @]

(* The call state k after an iteration on config cfg with outcome o. *)
after_factor(k, cfg, o) ==
    [k EXCEPT
       !.trace = Append(@, o),
       !.pc = IF o.kind = "veto" THEN "done"
              ELSE IF o.kind = "raised" THEN "raised" ELSE "loop",
       !.result = IF o.kind = "veto" THEN 0 ELSE @,
       !.cplx = IF o.kind = "veto" THEN FALSE ELSE (@ \/ o.cplx),
       !.i = IF o.kind \in {"veto", "raised"} THEN @ ELSE @ + 1,
       !.weighted_sum = IF o.kind = "scored" THEN @ + cfg.weight * o.fs ELSE @,
       !.total_weight = IF o.kind = "scored" THEN @ + cfg.weight ELSE @]

iterate(k, cfg, sc) ==
    after_factor(k, cfg, score_factor(cfg, k.raw[k.i], k.quality[k.i], sc))

(* A faulty variant: the iteration validates the config again before      *)
(* scoring it, storing the nudged bounds or raising.                       *)
ScoreFactor_revalidating(c) ==
    /\ calls[c].pc = "loop"
    /\ calls[c].i <= Len(profile)
    /\ calls' = [calls EXCEPT ![c] =
                    IF validate_factor(profile[@.i], scorer.eps).ok
                      THEN iterate(@, validate_factor(profile[@.i], scorer.eps).cfg,
                                   scorer)
                      ELSE [@ EXCEPT !.pc = "raised"]]
    /\ profile' = [profile EXCEPT ![calls[c].i] = validate_factor(@, scorer.eps).cfg]
    /\ UNCHANGED <<args, scorer>>

(* A faulty variant: the iteration also rewrites the weight of the config  *)
(* it scored.                                                              *)
ScoreFactor_mutating(c) ==
    /\ calls[c].pc = "loop"
    /\ calls[c].i <= Len(profile)
    /\ calls' = [calls EXCEPT ![c] = iterate(@, profile[@.i], scorer)]
    /\ profile' = [profile EXCEPT ![calls[c].i].weight = @ + 1]
    /\ UNCHANGED <<args, scorer>>

(* A faulty variant: the two sums live on the engine, so every call in its *)
(* loop sees the sums the last iteration left.                             *)
shared_sums(k, done) ==
    IF k.pc = "loop"
      THEN [k EXCEPT !.total_weight = done.total_weight,
                     !.weighted_sum = done.weighted_sum]
      ELSE k

share(cs, c, done) == [d \in DOMAIN cs |-> IF d = c THEN done ELSE shared_sums(cs[d], done)]

ScoreFactor_shared(c) ==
    /\ calls[c].pc = "loop"
    /\ calls[c].i <= Len(profile)
    /\ calls' = share(calls, c, iterate(calls[c], profile[calls[c].i], scorer))
    /\ UNCHANGED <<args, profile, scorer>>

(* One iteration of the loop over self.profile.items(). *)
ScoreFactor(c) ==
    /\ calls[c].pc = "loop"
    /\ calls[c].i <= Len(profile)
    /\ calls' = [calls EXCEPT ![c] = iterate(@, profile[@.i], scorer)]
    /\ UNCHANGED <<args, profile, scorer>>

(* Line 319: the call state on return. *)
finish(k) ==
    [k EXCEPT !.pc = "done",
              !.result = IF k.total_weight # 0 THEN k.weighted_sum \div k.total_weight
                         ELSE 0]

(* The loop is over: score_property returns. *)
Return(c) ==
    /\ calls[c].pc = "loop"
    /\ calls[c].i > Len(profile)
    /\ calls' = [calls EXCEPT ![c] = finish(@)]
    /\ UNCHANGED <<args, profile, scorer>>

(* score_property as a function: the call state when the call on profile   *)
(* prof of an engine with fields sc ends.                                  *)
RECURSIVE score_loop(_, _, _)
score_loop(k, prof, sc) ==
    IF k.pc # "loop" THEN k
    ELSE IF k.i > Len(prof) THEN finish(k)
    ELSE score_loop(iterate(k, prof[k.i], sc), prof, sc)

score_property(prof, raw, quality, sc) ==
    score_loop(enter(NewCall(raw, quality)), prof, sc)

Next ==
    \/ Construct
    \/ ConstructFail
    \/ \E c \in DOMAIN calls : Call(c)
    \/ \E c \in DOMAIN calls : ScoreFactor(c)
    \/ \E c \in DOMAIN calls : Return(c)

(* The profile dict is held by reference (line 110): its owner can change *)
(* a factor config after construction.  m names the change: a bound set to *)
(* the target, or the weight set to zero.                                  *)
mutated(cfg, m) ==
    CASE m = "upper" -> [cfg EXCEPT !.upper = cfg.target]
      [] m = "lower" -> [cfg EXCEPT !.lower = cfg.target]
      [] OTHER -> [cfg EXCEPT !.weight = 0]

(* The owner changes factor j while no call is running. *)
Mutate(j) ==
    /\ scorer.state = "ready"
    /\ \A c \in DOMAIN calls : calls[c].pc # "loop"
    /\ \E m \in {"upper", "lower", "weight"} :
          /\ mutated(profile[j], m) # profile[j]
          /\ profile' = [profile EXCEPT ![j] = mutated(@, m)]
    /\ UNCHANGED <<args, scorer, calls>>

NextMutable ==
    \/ Construct
    \/ ConstructFail
    \/ \E c \in DOMAIN calls : Call(c)
    \/ \E c \in DOMAIN calls : ScoreFactor(c)
    \/ \E c \in DOMAIN calls : Return(c)
    \/ \E j \in DOMAIN profile : Mutate(j)

(***************************************************************************)
(* Inputs.  Raw-unit inputs are floats: only representable values are      *)
(* given to the program.                                                   *)
(***************************************************************************)
Floats(S) == {n \in S : fl(n) = n}

Cfg(mode, t, d, w) ==
    [keys |-> {"mode", "target", "direction", "weight"}, nulls |-> {},
     mode |-> mode, target |-> t, direction |-> d, weight |-> w,
     lower |-> 0, upper |-> 0, multi |-> FALSE, aggregation |-> "",
     nearest_k |-> 0, farthest_k |-> 0, percentile |-> 0,
     decay_function |-> "", decay_rate |-> 0]

Band(c, l, u) == [c EXCEPT !.keys = @ \cup {"lower", "upper"}, !.lower = l, !.upper = u]

Multi(c, agg) ==
    [c EXCEPT !.keys = @ \cup {"multi", "aggregation"}, !.multi = TRUE, !.aggregation = agg]

Without(c, k) == [c EXCEPT !.keys = @ \ {k}]

(* The config with decay weighting by function fn. *)
Decay(c, fn) == [c EXCEPT !.keys = @ \cup {"decay_function"}, !.decay_function = fn]

(* The config with nearest_k and farthest_k set to k. *)
WithK(c, k) ==
    [c EXCEPT !.keys = @ \cup {"nearest_k", "farthest_k"}, !.nearest_k = k, !.farthest_k = k]

(* The config with decay_rate set to rate. *)
WithRate(c, rate) == [c EXCEPT !.keys = @ \cup {"decay_rate"}, !.decay_rate = rate]

(* The config with None under key k. *)
Null(c, k) == [c EXCEPT !.keys = @ \cup {k}, !.nulls = @ \cup {k}]

Num(x) == [kind |-> "num", v |-> <<x>>]

List(s) == [kind |-> "list", v |-> s]

NoRaw == [kind |-> "none", v |-> <<>>]

Frac(n, d) == [num |-> n, den |-> d]

(* The keyword defaults of __init__ (lines 102-108); margin_epsilon is the *)
(* least positive raw unit.                                                *)
DefaultArgs ==
    [max_quality |-> 5, quality_floor |-> ONE \div 10, quality_weight |-> Frac(4, 5),
     qual_exp |-> ONE, raw_floor |-> ONE \div 20, must_have_tolerance |-> 0,
     margin_epsilon |-> 1]

Profiles(Cfgs) == UNION {[1..n -> Cfgs] : n \in 1..MaxFactors}

(* The initial states: an unconstructed scorer, and for each caller the    *)
(* raw and quality mappings it will pass, one entry per factor.            *)
InitWith(Profs, Args, Raws, Quals, Ids) ==
    /\ profile \in Profs
    /\ \E kw \in Args : args = [profile |-> profile, kw |-> kw]
    /\ scorer = NewScorer
    /\ \E raws \in [1..Len(profile) -> Raws] :
       \E quals \in [1..Len(profile) -> Quals] :
          calls = [c \in Ids |-> NewCall(raws, quals)]

(***************************************************************************)
(* ui/components/calculation.py, run_calculation (lines 45-125): the       *)
(* engine is constructed from the profile (Construct / ConstructFail),     *)
(* then each property is scored by the component's own two loops.  A raw   *)
(* value of kind "none" is a key the property's raw mapping does not hold. *)
(* mk is whether the factor's key is in multi_keys (line 53).              *)
(***************************************************************************)
(* sum(in_range): the partial sums are float additions. *)
RECURSIVE float_sum(_, _)
float_sum(s, n) == IF n = 0 THEN 0 ELSE FAdd(float_sum(s, n - 1), s[n])

(* Lines 77-84 on the in-band values: their average, or the sentinel. *)
calc_avg(in_range, cfg) ==
    IF in_range # <<>>
      THEN Num(RoundRat(float_sum(in_range, Len(in_range)), Len(in_range)))
      ELSE Num(FAdd(cfg.upper, 1))

(* Lines 70-88: the entry of raw2 for one key.  `x or []` is [] for 0.0    *)
(* and x for any other number, which the comprehension cannot iterate.     *)
calc_raw2(cfg, val, mk) ==
    IF val.kind = "none" \/ ~mk THEN Value(val)
    ELSE IF val.kind = "num"
      THEN IF val.v[1] = 0 THEN Value(calc_avg(<<>>, cfg)) ELSE Raised
    ELSE Value(calc_avg(InBand(val.v, cfg), cfg))

(* Lines 95-118 for one key of raw2: no mode is skipped; _raw on a list    *)
(* raises TypeError.                                                       *)
calc_factor(cfg, x2, qv, sc) ==
    IF x2.kind = "none" THEN Outcome("missing", 0, 0, 0, FALSE)
    ELSE IF x2.kind = "list" THEN Outcome("raised", 0, 0, 0, FALSE)
    ELSE score_raw(cfg, _raw(x2.v[1], cfg, sc), qv, sc)

(* The second loop (lines 95-121) from call state k. *)
RECURSIVE calc_loop(_, _, _, _)
calc_loop(k, prof, raw2, sc) ==
    IF k.pc # "loop" THEN k
    ELSE IF k.i > Len(prof) THEN finish(k)
    ELSE calc_loop(after_factor(k, prof[k.i],
                                calc_factor(prof[k.i], raw2[k.i].v, k.quality[k.i], sc)),
                   prof, raw2, sc)

(* Lines 62-125 for one property, given the entries of raw2. *)
calc_property(k, prof, raw2, sc) ==
    IF \E j \in DOMAIN raw2 : raw2[j].exc THEN [k EXCEPT !.pc = "raised"]
    ELSE calc_loop(k, prof, raw2, sc)

run_calculation(prof, raw, quality, sc, multi_keys) ==
    calc_property(enter(NewCall(raw, quality)), prof,
                  [j \in DOMAIN prof |-> calc_raw2(prof[j], raw[j], j \in multi_keys)],
                  sc)

(* run_calculation scores property c. *)
Calculate(c) ==
    /\ scorer.state = "ready"
    /\ calls[c].pc = "idle"
    /\ calls' = [calls EXCEPT ![c] =
                    run_calculation(profile, @.raw, @.quality, scorer, args.multi_keys)]
    /\ UNCHANGED <<args, profile, scorer>>

NextUI ==
    \/ Construct
    \/ ConstructFail
    \/ \E c \in DOMAIN calls : Calculate(c)

(*-------------------------------------------------------------------------*)
(* Spec: profiles of several factors through construction and one          *)
(* score_property call (the weighted combiner).                            *)
(*-------------------------------------------------------------------------*)
MustA == Cfg("must_have", 5, -1, 1)

NiceA == Band(Cfg("nice_to_have", 4, -1, 2), 2, 8)

IrrA == Cfg("irrelevant", 4, -1, 1)

IrrB == Band(Cfg("irrelevant", 5, 1, 3), 2, 6)

BadWeight == Cfg("nice_to_have", 4, -1, 0)

SpecCfgs == {MustA, NiceA, IrrA, IrrB, BadWeight}

SpecArgs ==
    {[DefaultArgs EXCEPT !.quality_weight = w, !.qual_exp = e] :
        w \in {Frac(0, 1), Frac(4, 5)}, e \in {0, ONE}}

SpecRaws == {NoRaw, Num(4), Num(7)}

SpecQuals == {<<>>, <<3>>}

Init == InitWith(Profiles(SpecCfgs), SpecArgs, SpecRaws, SpecQuals, {1})

Spec == Init /\ [][Next]_vars

(*-------------------------------------------------------------------------*)
(* SpecFactor: one factor, the engine parameters and the inputs drawn      *)
(* widely (the raw-match evaluator, the quality normalizer, the blender).  *)
(*-------------------------------------------------------------------------*)
MustUp == Cfg("must_have", 14, 1, 2)

NiceB == Band(Cfg("nice_to_have", 6, 1, 1), 3, 7)

NiceBare == Cfg("nice_to_have", 4, -1, 1)

NiceFar == Cfg("nice_to_have", 12, -1, 1)

FactorCfgs == {MustA, MustUp, NiceA, NiceB, NiceBare, NiceFar, BadWeight}

FactorArgs ==
    {[DefaultArgs EXCEPT !.quality_weight = w, !.quality_floor = qf,
                         !.must_have_tolerance = tol, !.raw_floor = rf,
                         !.qual_exp = e] :
        w \in {Frac(0, 1), Frac(1, 2), Frac(4, 5), Frac(1, 1), Frac(-1, 2), Frac(3, 2)},
        qf \in {0, ONE \div 10}, tol \in {0, 1, 6}, rf \in {0, ONE \div 20},
        e \in {ONE, 2 * ONE}}

FactorRaws == {NoRaw} \cup {Num(x) : x \in Floats(0..14)}

FactorQuals == {<<>>, <<1>>, <<3>>, <<5>>, <<7>>}

InitFactor ==
    InitWith([1..1 -> FactorCfgs], FactorArgs, FactorRaws, FactorQuals, {1})

SpecFactor == InitFactor /\ [][Next]_vars

(*-------------------------------------------------------------------------*)
(* SpecValidate: construction on well- and ill-formed profiles.            *)
(*-------------------------------------------------------------------------*)
ValidateCfgs ==
    {Cfg(m, 4, -1, 1) : m \in {"must_have", "nice_to_have", "irrelevant"}}
    \cup {Band(Cfg(m, 4, 1, 2), b[1], b[2]) :
            m \in {"must_have", "nice_to_have", "irrelevant"},
            b \in {<<2, 8>>, <<4, 4>>, <<6, 3>>, <<6, 8>>, <<0, 4>>}}
    \cup {Without(Band(Cfg("nice_to_have", 4, -1, 1), 2, 8), k) :
            k \in {"mode", "target", "direction", "weight", "lower", "upper"}}
    \cup {Cfg("optional", 4, -1, 1), Cfg("must_have", 4, 0, 1),
          Cfg("must_have", 4, -1, 0), Cfg("irrelevant", 4, 1, -2)}
    \cup {Multi(NiceA, a) : a \in {"mean", "average"}}
    \cup {Without(Multi(MustA, "mean"), "aggregation"),
          [Multi(NiceA, "average") EXCEPT !.multi = FALSE]}

ValidateArgs == {[DefaultArgs EXCEPT !.margin_epsilon = e] : e \in {-1, 0, 1}}

InitValidate ==
    InitWith(Profiles(ValidateCfgs), ValidateArgs, {Num(4)}, {<<3>>}, {1})

SpecValidate == InitValidate /\ [][Next]_vars
(*-------------------------------------------------------------------------*)
(* SpecMulti: multi factors, whose raw value is a collection.              *)
(*-------------------------------------------------------------------------*)
MultiNice == Multi(NiceA, "mean")

MultiMust == Multi(Band(MustA, 2, 8), "min")

MultiBad == Multi(NiceA, "average")

MultiCfgs == {MultiNice, MultiMust, MultiBad}

MultiArgs == {[DefaultArgs EXCEPT !.quality_weight = w] : w \in {Frac(4, 5), Frac(1, 1)}}

MultiRaws ==
    {NoRaw, Num(4), Num(10), List(<<>>), List(<<4>>), List(<<10>>), List(<<4, 10>>)}

InitMulti == InitWith(Profiles(MultiCfgs), MultiArgs, MultiRaws, {<<>>, <<3>>}, {1})

SpecMulti == InitMulti /\ [][Next]_vars

(*-------------------------------------------------------------------------*)
(* SpecCalls: several score_property calls on one engine, interleaved,     *)
(* each with its own raw and quality mappings.                             *)
(*-------------------------------------------------------------------------*)
CallProfiles == {<<MustA, NiceA>>, <<NiceA, IrrA>>, <<NiceA, BadWeight>>}

CallArgs == {[DefaultArgs EXCEPT !.qual_exp = e] : e \in {0, ONE}}

(* The inputs of one call: the raw values and the ratings of both factors. *)
CallInputs ==
    {[raw |-> <<Num(4), Num(4)>>, quality |-> <<<<>>, <<>>>>],
     [raw |-> <<Num(4), Num(7)>>, quality |-> <<<<3>>, <<>>>>],
     [raw |-> <<Num(7), Num(7)>>, quality |-> <<<<>>, <<3>>>>],
     [raw |-> <<NoRaw, Num(7)>>, quality |-> <<<<>>, <<>>>>]}

InitCalls ==
    /\ profile \in CallProfiles
    /\ \E kw \in CallArgs : args = [profile |-> profile, kw |-> kw]
    /\ scorer = NewScorer
    /\ \E inp \in [1..MaxCalls -> CallInputs] :
          calls = [c \in 1..MaxCalls |-> NewCall(inp[c].raw, inp[c].quality)]

SpecCalls == InitCalls /\ [][Next]_vars

(*-------------------------------------------------------------------------*)
(* SpecMust: profiles of must_have (and irrelevant) factors, with and      *)
(* without a soft tolerance.                                               *)
(*-------------------------------------------------------------------------*)
MustB == Cfg("must_have", 6, 1, 2)

MustCfgs == {MustA, MustB, IrrA, BadWeight}

MustArgs == {[DefaultArgs EXCEPT !.must_have_tolerance = tol] : tol \in {0, 6}}

InitMust ==
    InitWith(Profiles(MustCfgs), MustArgs, {NoRaw, Num(4), Num(8)},
             {<<>>, <<3>>, <<5>>}, {1})

SpecMust == InitMust /\ [][Next]_vars

(*-------------------------------------------------------------------------*)
(* SpecBounds: construction on configs whose bounds are absent, zero, None *)
(* or ordinary.                                                            *)
(*-------------------------------------------------------------------------*)
BoundsCfgs ==
    UNION {{Cfg(m, 4, -1, 1),
            Band(Cfg(m, 4, -1, 1), 2, 8),
            Band(Cfg(m, 4, -1, 1), 0, 8),
            Band(Cfg(m, -2, 1, 1), -4, 0),
            Null(Band(Cfg(m, 4, -1, 1), 2, 8), "lower"),
            Null(Band(Cfg(m, 4, -1, 1), 2, 8), "upper")} :
              m \in {"must_have", "nice_to_have"}}
    \cup {Null(Band(MustA, 6, 8), "upper"), Null(MultiBad, "upper"), BadWeight}

InitBounds == InitWith(Profiles(BoundsCfgs), {DefaultArgs}, {Num(4)}, {<<>>}, {1})

SpecBounds == InitBounds /\ [][Next]_vars

(*-------------------------------------------------------------------------*)
(* SpecAggregate: one multi factor under every aggregation method and      *)
(* decay function, on collections of up to MaxLen values.                  *)
(*-------------------------------------------------------------------------*)
Lists(V) == UNION {[1..n -> V] : n \in 0..MaxLen}

AggregateCfgs ==
    {Multi(NiceA, a) : a \in ALLOWED_AGG \cup {"average"}}
    \cup {Decay(MultiNice, fn) : fn \in {"linear", "exp", "quadratic"}}

InitAggregate ==
    InitWith([1..1 -> AggregateCfgs], {DefaultArgs},
             {List(l) : l \in Lists({1, 4, 6, 10})}, {<<>>}, {1})

SpecAggregate == InitAggregate /\ [][Next]_vars

(*-------------------------------------------------------------------------*)
(* SpecFlat: one multi factor without decay under every aggregation        *)
(* method, with nearest_k / farthest_k absent (defaulted to 1), 0, 1 or 2. *)
(*-------------------------------------------------------------------------*)
FlatCfgs ==
    {Multi(NiceA, a) : a \in ALLOWED_AGG \cup {"average"}}
    \cup {WithK(Multi(NiceA, a), k) : a \in {"k_nearest", "k_farthest"}, k \in 0..2}

InitFlat ==
    InitWith([1..1 -> FlatCfgs], {DefaultArgs},
             {List(l) : l \in Lists({1, 3, 4, 8})}, {<<>>}, {1})

SpecFlat == InitFlat /\ [][Next]_vars

(*-------------------------------------------------------------------------*)
(* SpecDecay: one multi factor with decay weighting, under every decay     *)
(* function, with decay_rate absent (1.0), 0.5 or 10.                      *)
(*-------------------------------------------------------------------------*)
NiceWide == Band(Cfg("nice_to_have", 4, -1, 2), 2, 12)

DecayCfgs ==
    {Decay(Multi(c, a), fn) :
        c \in {NiceA, NiceWide}, a \in {"mean", "max"},
        fn \in {"linear", "exp", "quadratic"}}
    \cup {WithRate(Decay(Multi(c, "min"), fn), rate) :
        c \in {NiceA, NiceWide}, fn \in {"linear", "exp", "quadratic"},
        rate \in {ONE \div 2, 10 * ONE}}
    \cup {Decay(Multi(NiceA, "average"), "linear")}

InitDecay ==
    InitWith([1..1 -> DecayCfgs], {DefaultArgs},
             {List(l) : l \in Lists({2, 5, 8, 12})}, {<<>>}, {1})

SpecDecay == InitDecay /\ [][Next]_vars

(*-------------------------------------------------------------------------*)
(* SpecMutable: calls on an engine whose profile the owner changes after   *)
(* construction.                                                           *)
(*-------------------------------------------------------------------------*)
MutableCfgs == {NiceA, MustA, BadWeight}

InitMutable ==
    InitWith(Profiles(MutableCfgs), {DefaultArgs}, {Num(4), Num(5)}, {<<>>}, {1})

SpecMutable == InitMutable /\ [][NextMutable]_vars

(*-------------------------------------------------------------------------*)
(* SpecUI: run_calculation on one property, for every choice of the keys   *)
(* the component takes as multi.                                           *)
(*-------------------------------------------------------------------------*)
MustBand == Band(Cfg("must_have", 5, 1, 1), 2, 6)

UICfgs == {NiceB, Multi(NiceB, "min"), IrrB, MustBand, BadWeight}

UIArgs == {[DefaultArgs EXCEPT !.must_have_tolerance = tol] : tol \in {0, 6}}

UIRaws == {NoRaw, Num(5), List(<<>>), List(<<4, 6>>), List(<<10>>)}

InitUI ==
    /\ profile \in Profiles(UICfgs)
    /\ \E kw \in UIArgs : \E mk \in SUBSET (1..Len(profile)) :
          args = [profile |-> profile, kw |-> kw, multi_keys |-> mk]
    /\ scorer = NewScorer
    /\ \E raws \in [1..Len(profile) -> UIRaws] :
       \E quals \in [1..Len(profile) -> {<<>>, <<3>>}] :
          calls = [c \in {1} |-> NewCall(raws, quals)]

SpecUI == InitUI /\ [][NextUI]_vars

(*-------------------------------------------------------------------------*)
(* SpecCollapse: nice_to_have factors whose band the validator leaves      *)
(* collapsed on one side or both (margin_epsilon = 0, or an epsilon the    *)
(* target absorbs).                                                        *)
(*-------------------------------------------------------------------------*)
NiceUp == Cfg("nice_to_have", 6, 1, 1)

CollapseCfgs ==
    {NiceBare, NiceUp, NiceFar, NiceA, Band(NiceBare, 2, 4), Band(NiceUp, 6, 7),
     Band(NiceBare, 5, 3), Multi(NiceBare, "mean"), Multi(Band(NiceUp, 6, 7), "max"),
     BadWeight}

CollapseArgs == {[DefaultArgs EXCEPT !.margin_epsilon = eps] : eps \in {0, 1}}

CollapseRaws ==
    {Num(3), Num(4), Num(5), Num(6), Num(7), Num(12), Num(14),
     List(<<4>>), List(<<6, 7>>)}

InitCollapse ==
    InitWith([1..1 -> CollapseCfgs], CollapseArgs, CollapseRaws, {<<>>, <<3>>}, {1})

SpecCollapse == InitCollapse /\ [][Next]_vars

(***************************************************************************)
(* Properties.                                                             *)
(***************************************************************************)
Ended(k) == k.pc \in {"done", "raised"}

(* What the caller observes of an ended call: whether it returned, the     *)
(* number, and whether that number is complex.                             *)
Answer(k) == <<k.pc, k.result, k.cplx>>

(* The raw-match of a factor that has a raw value. *)
raw_match(cfg, val, sc) ==
    IF IsMulti(cfg)
      THEN IF _aggregate(val.v, cfg).none THEN 0
           ELSE _raw(_aggregate(val.v, cfg).v, cfg, sc)
      ELSE _raw(val.v[1], cfg, sc)

(* The factors that are neither irrelevant nor without a raw value (nor    *)
(* multi with a raw value that is not a list).                             *)
Contributing(prof, raw) ==
    {i \in 1..Len(prof) :
        /\ prof[i].mode # "irrelevant"
        /\ raw[i].kind # "none"
        /\ IsMulti(prof[i]) => raw[i].kind = "list"}

(* The must_have factors whose raw value has raw-match 0. *)
FailingMust(prof, raw, sc) ==
    {i \in Contributing(prof, raw) :
        prof[i].mode = "must_have" /\ raw_match(prof[i], raw[i], sc) = 0}

(* sum(w_i * x_i) / sum(w_i) over the factors in S, 0 over no factor.      *)
weighted_mean_of(ws, xs) ==
    IF SeqSum(ws) = 0 THEN 0
    ELSE SeqSum([i \in 1..Len(ws) |-> ws[i] * xs[i]]) \div SeqSum(ws)

weighted_mean(prof, S, xs) ==
    weighted_mean_of([i \in 1..Len(prof) |-> IF i \in S THEN prof[i].weight ELSE 0], xs)

(* C1: every score_property call on a constructed engine returns, and      *)
(* returns a real number s with 0 <= s <= 1; no call ends in an exception. *)
C1_ScoreInUnitInterval ==
    \A c \in DOMAIN calls :
       Ended(calls[c]) =>
          /\ calls[c].pc = "done"
          /\ ~calls[c].cplx
          /\ 0 <= calls[c].result /\ calls[c].result <= ONE

(* C2: when some must_have factor has a raw value of raw-match 0, the call *)
(* returns exactly 0, wherever that factor stands and whatever the other   *)
(* factors' inputs, and no factor after the first failing one is           *)
(* evaluated.                                                              *)
C2_MustHaveVeto ==
    \A c \in DOMAIN calls :
       (Ended(calls[c]) /\ FailingMust(profile, calls[c].raw, scorer) # {}) =>
          /\ calls[c].pc = "done"
          /\ calls[c].result = 0
          /\ \A i \in FailingMust(profile, calls[c].raw, scorer) :
                Len(calls[c].trace) <= i

(* C3: a factor without a raw value is skipped whatever its mode, and the  *)
(* call returns sum(weight_i * fs_i) / sum(weight_i) over the factors that *)
(* are neither irrelevant nor without a raw value (0 over no factor; 0     *)
(* also when a must_have factor vetoes).                                   *)
C3_MissingRawSkipped ==
    \A c \in DOMAIN calls :
       Ended(calls[c]) =>
          /\ \A i \in 1..Len(calls[c].trace) :
                (profile[i].mode # "irrelevant" /\ calls[c].raw[i].kind = "none")
                   => calls[c].trace[i].kind = "missing"
          /\ calls[c].pc = "done"
          /\ calls[c].result =
               IF FailingMust(profile, calls[c].raw, scorer) # {} THEN 0
               ELSE weighted_mean(profile, Contributing(profile, calls[c].raw),
                      [i \in 1..Len(profile) |->
                          score_factor(profile[i], calls[c].raw[i],
                                       calls[c].quality[i], scorer).fs])

(* The positions of the factors that are not irrelevant, in order. *)
Relevant(prof) ==
    SelectSeq([i \in 1..Len(prof) |-> i], LAMBDA i : prof[i].mode # "irrelevant")

Project(s, idx) == [j \in 1..Len(idx) |-> s[idx[j]]]

(* C4: an irrelevant factor never contributes: what a call answers is what *)
(* the call answers on the profile and inputs with every irrelevant factor *)
(* taken out (so neither its raw value, its rating, its weight, target or  *)
(* bounds have any effect, and it never vetoes).                           *)
C4_IrrelevantNeverContributes ==
    \A c \in DOMAIN calls :
       Ended(calls[c]) =>
          /\ \A i \in 1..Len(calls[c].trace) :
                profile[i].mode = "irrelevant" => calls[c].trace[i].kind = "irrelevant"
          /\ Answer(calls[c]) =
               Answer(score_property(Project(profile, Relevant(profile)),
                                     Project(calls[c].raw, Relevant(profile)),
                                     Project(calls[c].quality, Relevant(profile)),
                                     scorer))

(* An irrelevant factor with a raw value and a rating stands before a      *)
(* factor that scored, and the call returned a positive score.             *)
C4_Witness ==
    \E c \in DOMAIN calls :
       /\ calls[c].pc = "done"
       /\ calls[c].result > 0
       /\ \E i, j \in 1..Len(profile) :
             /\ i < j
             /\ profile[i].mode = "irrelevant"
             /\ calls[c].raw[i].kind = "num"
             /\ calls[c].quality[i] # <<>>
             /\ calls[c].trace[j].kind = "scored"

(* The factors of call k that were blended with a quality rating. *)
Blended(k) ==
    {j \in 1..Len(k.trace) : k.trace[j].kind = "scored" /\ k.quality[j] # <<>>}

(* C5 as stated: a blended factor with raw-match 0 has factor score 0, for *)
(* every rating and every quality_weight in [0,1], 1 included.             *)
C5_ZeroRawNeverRescued ==
    \A c \in DOMAIN calls : \A j \in Blended(calls[c]) :
       calls[c].trace[j].r = 0 => calls[c].trace[j].fs = 0

(* C5, amended: a blended factor with raw-match 0 has factor score 0, for  *)
(* every rating and every quality_weight in [0,1); at quality_weight = 1   *)
(* its factor score is the quality score.                                  *)
C5_ZeroRawNotRescuedBelowOne ==
    \A c \in DOMAIN calls : \A j \in Blended(calls[c]) :
       calls[c].trace[j].r = 0 =>
          calls[c].trace[j].fs =
             IF scorer.q_weight.num < scorer.q_weight.den THEN 0
             ELSE _qual(calls[c].quality[j][1], scorer).v

(* A factor out of its band (raw-match 0) with the best rating was blended *)
(* under quality_weight 4/5 into the factor score 0.                       *)
C5_Witness ==
    \E c \in DOMAIN calls : \E j \in Blended(calls[c]) :
       /\ calls[c].trace[j].r = 0
       /\ calls[c].trace[j].qn = ONE
       /\ scorer.q_weight = Frac(4, 5)
       /\ calls[c].trace[j].fs = 0

(* C6: for a factor with a rating, quality_weight 0 makes the factor score *)
(* the raw-match r whatever the quality score qn (qn = 0 included), and    *)
(* quality_weight 1 makes it the quality score qn whatever r.              *)
C6_PureRawPureQuality ==
    \A c \in DOMAIN calls : \A j \in Blended(calls[c]) :
       /\ calls[c].trace[j].r = raw_match(profile[j], calls[c].raw[j], scorer)
       /\ calls[c].trace[j].qn = _qual(calls[c].quality[j][1], scorer).v
       /\ scorer.q_weight.num = 0 => calls[c].trace[j].fs = calls[c].trace[j].r
       /\ scorer.q_weight.num = scorer.q_weight.den
             => calls[c].trace[j].fs = calls[c].trace[j].qn

(* Under quality_weight 0 a factor of quality score 0 and a raw-match      *)
(* strictly between 0 and 1 got its raw-match as factor score.             *)
C6_Witness ==
    \E c \in DOMAIN calls : \E j \in Blended(calls[c]) :
       /\ scorer.q_weight.num = 0
       /\ calls[c].trace[j].qn = 0
       /\ 0 < calls[c].trace[j].r /\ calls[c].trace[j].r < ONE
       /\ calls[c].trace[j].fs = calls[c].trace[j].r

QualityWeights == {Frac(0, 1), Frac(1, 2), Frac(4, 5), Frac(1, 1)}

(* C7: when no factor has a rating, the call returns                       *)
(* sum(weight_i * r_i) / sum(weight_i) over the contributing factors (0    *)
(* over none, and 0 when a must_have factor vetoes: then no factor         *)
(* contributes), and every engine that differs only in quality_weight      *)
(* answers the same.                                                       *)
C7_RawOnlyScore ==
    \A c \in DOMAIN calls :
       (Ended(calls[c]) /\ \A i \in 1..Len(profile) : calls[c].quality[i] = <<>>) =>
          /\ calls[c].pc = "done"
          /\ ~calls[c].cplx
          /\ calls[c].result =
               IF FailingMust(profile, calls[c].raw, scorer) # {} THEN 0
               ELSE weighted_mean(profile, Contributing(profile, calls[c].raw),
                      [i \in 1..Len(profile) |->
                          IF i \in Contributing(profile, calls[c].raw)
                            THEN raw_match(profile[i], calls[c].raw[i], scorer)
                            ELSE 0])
          /\ \A w \in QualityWeights :
                Answer(score_property(profile, calls[c].raw, calls[c].quality,
                                      [scorer EXCEPT !.q_weight = w]))
                   = Answer(calls[c])

(* Two unrated factors contributed under a positive quality_weight and the *)
(* call returned a score strictly between 0 and 1.                         *)
C7_Witness ==
    \E c \in DOMAIN calls :
       /\ calls[c].pc = "done"
       /\ \A i \in 1..Len(profile) : calls[c].quality[i] = <<>>
       /\ Cardinality(Contributing(profile, calls[c].raw)) >= 2
       /\ scorer.q_weight.num > 0
       /\ 0 < calls[c].result /\ calls[c].result < ONE

(* C8: after a successful construction every factor config, whatever its   *)
(* mode, holds lower and upper with lower <= target <= upper; the bounds   *)
(* of a must_have or irrelevant factor are the given ones, so a profile    *)
(* that gives such a factor a lower above or an upper below its target is  *)
(* never accepted.                                                         *)
C8_BoundsOrdered ==
    scorer.state = "ready" =>
       \A i \in 1..Len(profile) :
          /\ {"lower", "upper"} \subseteq profile[i].keys
          /\ profile[i].lower <= profile[i].target
          /\ profile[i].target <= profile[i].upper
          /\ profile[i].target = args.profile[i].target
          /\ (profile[i].mode # "nice_to_have" /\ Has(args.profile[i], "lower"))
                => profile[i].lower = args.profile[i].lower
          /\ (profile[i].mode # "nice_to_have" /\ Has(args.profile[i], "upper"))
                => profile[i].upper = args.profile[i].upper

(* An engine was constructed from a profile with a nice_to_have factor     *)
(* given lower = target = upper, and its bounds now strictly surround the  *)
(* target.                                                                 *)
C8_Witness ==
    /\ scorer.state = "ready"
    /\ \E i \in 1..Len(profile) :
          /\ args.profile[i].mode = "nice_to_have"
          /\ {"lower", "upper"} \subseteq args.profile[i].keys
          /\ args.profile[i].lower = args.profile[i].target
          /\ args.profile[i].upper = args.profile[i].target
          /\ profile[i].lower < profile[i].target
          /\ profile[i].target < profile[i].upper

(* The defects of a factor config that C9 lists. *)
BadCfg(cfg) ==
    \/ {"mode", "target", "direction", "weight"} \ cfg.keys # {}
    \/ cfg.mode \notin {"must_have", "nice_to_have", "irrelevant"}
    \/ cfg.direction \notin {-1, 1}
    \/ cfg.weight <= 0
    \/ IsMulti(cfg) /\ ~(Has(cfg, "aggregation") /\ cfg.aggregation \in ALLOWED_AGG)

(* C9: when some factor config of the given profile lacks a required key,  *)
(* or has an invalid mode, direction, weight or (multi set) aggregation,   *)
(* construction never yields an engine (it can only end in the error) and  *)
(* no score_property call ever starts.                                     *)
C9_BadConfigRejected ==
    (\E i \in 1..Len(args.profile) : BadCfg(args.profile[i])) =>
       /\ scorer.state \in {"new", "ConfigError"}
       /\ \A c \in DOMAIN calls : calls[c].pc = "idle" /\ calls[c].trace = <<>>

(* Construction ended in the error on a profile whose second factor, the   *)
(* only defective one, sets multi with an unknown aggregation.             *)
C9_Witness ==
    /\ scorer.state = "ConfigError"
    /\ scorer.err = "invalid aggregation"
    /\ Len(args.profile) = 2
    /\ ~BadCfg(args.profile[1])
    /\ IsMulti(args.profile[2])

(* The must_have raw-match as C10 states it, in exact arithmetic. *)
must_have_stated(x, d, t, tol) ==
    IF d < 0 THEN
      IF x <= t THEN ONE
      ELSE IF tol > 0 /\ x <= t + tol THEN ONE - ((x - t) * ONE) \div tol
      ELSE 0
    ELSE
      IF x >= t THEN ONE
      ELSE IF tol > 0 /\ x >= t - tol THEN ONE - ((t - x) * ONE) \div tol
      ELSE 0

(* C10: the raw-match of every evaluated must_have factor is the stated    *)
(* function of x, target, direction and tolerance alone, and lies in       *)
(* [0,1].                                                                  *)
C10_MustHaveRawMatch ==
    \A c \in DOMAIN calls : \A j \in 1..Len(calls[c].trace) :
       (profile[j].mode = "must_have" /\ calls[c].raw[j].kind = "num") =>
          /\ calls[c].trace[j].r =
                must_have_stated(calls[c].raw[j].v[1], profile[j].direction,
                                 profile[j].target, scorer.tol)
          /\ 0 <= calls[c].trace[j].r /\ calls[c].trace[j].r <= ONE

(* The scalar nice_to_have factors of call k that were evaluated. *)
NiceEvaluated(k) ==
    {j \in 1..Len(k.trace) :
        /\ profile[j].mode = "nice_to_have"
        /\ ~IsMulti(profile[j])
        /\ k.raw[j].kind = "num"}

InsideBand(x, cfg) == cfg.lower <= x /\ x <= cfg.upper

(* The band edge on the side where the match decays. *)
FarEdge(cfg) == IF cfg.direction < 0 THEN cfg.upper ELSE cfg.lower

(* The nice_to_have raw-match inside the band as C11 states it, in float   *)
(* arithmetic.                                                             *)
nice_stated(x, d, t, l, u, r_floor) ==
    Max(r_floor,
        IF d < 0
          THEN IF x <= t THEN ONE ELSE ONE - FDiv(FSub(x, t), FSub(u, t))
          ELSE IF x >= t THEN ONE ELSE ONE - FDiv(FSub(t, x), FSub(t, l)))

C12_BandCutoff ==
    \A c \in DOMAIN calls : \A j \in NiceEvaluated(calls[c]) :
       IF InsideBand(calls[c].raw[j].v[1], profile[j])
         THEN calls[c].trace[j].r >= scorer.r_floor /\ calls[c].trace[j].r <= ONE
         ELSE calls[c].trace[j].r = 0

(* A nice_to_have factor was evaluated outside its band under a positive   *)
(* raw_floor and its raw-match is 0.                                       *)
C12_Witness ==
    \E c \in DOMAIN calls : \E j \in NiceEvaluated(calls[c]) :
       /\ calls[c].raw[j].v[1] > profile[j].upper
       /\ scorer.r_floor > 0
       /\ calls[c].trace[j].r = 0

(* No value of the collection vals lies in the band of cfg. *)
NoneInBand(vals, cfg) ==
    \A i \in 1..Len(vals) : vals[i] < cfg.lower \/ vals[i] > cfg.upper

(* The multi factors of call k that were reached with a collection holding *)
(* no in-band value.                                                       *)
EmptyInBand(k) ==
    {j \in 1..Len(k.trace) :
        /\ profile[j].mode # "irrelevant"
        /\ IsMulti(profile[j])
        /\ k.raw[j].kind = "list"
        /\ NoneInBand(k.raw[j].v, profile[j])}

(* The sum of the weights of the contributing factors among the first n.   *)
weight_upto(prof, raw, n) ==
    SeqSum([i \in 1..Len(prof) |->
              IF i <= n /\ i \in Contributing(prof, raw) THEN prof[i].weight ELSE 0])

(* C13: a multi factor whose collection has no in-band value is evaluated  *)
(* with raw-match 0 and not skipped: a must_have factor vetoes (the call   *)
(* returns 0), a nice_to_have factor is scored and its weight is in the    *)
(* denominator.                                                            *)
C13_EmptyAggregateIsZeroMatch ==
    \A c \in DOMAIN calls : \A j \in EmptyInBand(calls[c]) :
       /\ calls[c].trace[j].r = 0
       /\ IF profile[j].mode = "must_have"
            THEN /\ calls[c].trace[j].kind = "veto"
                 /\ calls[c].pc = "done" /\ calls[c].result = 0
            ELSE /\ calls[c].trace[j].kind = "scored"
                 /\ calls[c].trace[Len(calls[c].trace)].kind # "veto"
                      => calls[c].total_weight =
                           weight_upto(profile, calls[c].raw, Len(calls[c].trace))

(* After a factor that scored, a must_have factor whose collection is not  *)
(* empty but has no in-band value vetoed the property.                     *)
C13_Witness ==
    \E c \in DOMAIN calls : \E j \in EmptyInBand(calls[c]) :
       /\ j > 1
       /\ calls[c].trace[j - 1].kind = "scored"
       /\ profile[j].mode = "must_have"
       /\ calls[c].raw[j].v # <<>>
       /\ calls[c].pc = "done" /\ calls[c].result = 0

(* The raw mapping with every collection that has no in-band value taken   *)
(* out.                                                                    *)
SkipEmpty(prof, raw) ==
    [i \in 1..Len(raw) |->
        IF IsMulti(prof[i]) /\ raw[i].kind = "list" /\ NoneInBand(raw[i].v, prof[i])
          THEN NoRaw ELSE raw[i]]

(* C14 as stated: a factor whose collection is empty after band filtering  *)
(* is excluded exactly like a factor with no raw value: the call answers   *)
(* as it does without those raw values.                                    *)
C14_EmptyAggregateSkipped ==
    \A c \in DOMAIN calls :
       Ended(calls[c]) =>
          Answer(calls[c]) =
             Answer(score_property(profile, SkipEmpty(profile, calls[c].raw),
                                   calls[c].quality, scorer))

(* C14, amended: a factor whose collection is empty after band filtering   *)
(* is not excluded: if it is must_have the call returns 0, otherwise the   *)
(* call returns sum(weight_i * fs_i) / sum(weight_i) over all factors that *)
(* have a raw value, this factor included with raw-match 0 (factor score 0 *)
(* without a rating).                                                      *)
C14_EmptyAggregateCounted ==
    \A c \in DOMAIN calls :
       (calls[c].pc = "done" /\ EmptyInBand(calls[c]) # {}) =>
          IF \E j \in EmptyInBand(calls[c]) : profile[j].mode = "must_have"
            THEN calls[c].result = 0
            ELSE /\ \A j \in EmptyInBand(calls[c]) :
                       calls[c].quality[j] = <<>> => calls[c].trace[j].fs = 0
                 /\ FailingMust(profile, calls[c].raw, scorer) = {} =>
                      /\ calls[c].total_weight =
                            weight_upto(profile, calls[c].raw, Len(profile))
                      /\ calls[c].result =
                            weighted_mean(profile, Contributing(profile, calls[c].raw),
                               [i \in 1..Len(profile) |-> calls[c].trace[i].fs])

(* A nice_to_have factor with an empty collection and no rating was        *)
(* counted beside a factor that matched: the call returned a score         *)
(* strictly between 0 and 1.                                               *)
C14_Witness ==
    \E c \in DOMAIN calls : \E j \in EmptyInBand(calls[c]) :
       /\ calls[c].pc = "done"
       /\ profile[j].mode = "nice_to_have"
       /\ calls[c].raw[j].v = <<>>
       /\ calls[c].quality[j] = <<>>
       /\ 0 < calls[c].result /\ calls[c].result < ONE

(* C15: two calls on the same engine with identical raw and quality inputs *)
(* answer identically, and no step after construction changes the         *)
(* validated profile, the engine's parameters, or the raw and quality      *)
(* mappings of any call.                                                   *)
C15_Idempotent ==
    /\ [](\A c, d \in DOMAIN calls :
            (/\ Ended(calls[c]) /\ Ended(calls[d])
             /\ calls[c].raw = calls[d].raw
             /\ calls[c].quality = calls[d].quality)
               => Answer(calls[c]) = Answer(calls[d]))
    /\ [][scorer.state = "ready" =>
            /\ profile' = profile
            /\ scorer' = scorer
            /\ \A c \in DOMAIN calls :
                  calls'[c].raw = calls[c].raw /\ calls'[c].quality = calls[c].quality]_vars

(* Two calls with the same inputs, one of them rated, both returned the    *)
(* same score strictly between 0 and 1.                                    *)
C15_Witness ==
    \E c, d \in DOMAIN calls :
       /\ c # d
       /\ calls[c].pc = "done" /\ calls[d].pc = "done"
       /\ calls[c].raw = calls[d].raw /\ calls[c].quality = calls[d].quality
       /\ \E i \in 1..Len(profile) : calls[c].quality[i] # <<>>
       /\ calls[c].result = calls[d].result
       /\ 0 < calls[c].result /\ calls[c].result < ONE

(* C17: whatever the interleaving of the calls on one engine, every call   *)
(* answers what it answers when run alone on its inputs, and each sum of a *)
(* call in progress is the sum over the factors that call has scored.      *)
C17_CallsIndependent ==
    \A c \in DOMAIN calls :
       /\ Ended(calls[c]) =>
             Answer(calls[c]) =
                Answer(score_property(profile, calls[c].raw, calls[c].quality, scorer))
       /\ calls[c].pc = "loop" =>
             calls[c].total_weight =
                SeqSum([j \in 1..Len(calls[c].trace) |->
                          IF calls[c].trace[j].kind = "scored" THEN profile[j].weight ELSE 0])

(* One call returned a positive score while another call, on different     *)
(* inputs, is in the middle of its loop with one factor scored.            *)
C17_Witness ==
    \E c, d \in DOMAIN calls :
       /\ calls[c].pc = "done" /\ calls[c].result > 0
       /\ calls[d].pc = "loop" /\ calls[d].i = 2
       /\ calls[d].trace[1].kind = "scored"
       /\ calls[c].raw # calls[d].raw

(* Call k returned on a profile whose factors are all must_have or         *)
(* irrelevant, at least one of them had a raw value, none vetoed, and      *)
(* every rating given to a factor with a raw value is max_quality.         *)
AllMustPassed(k) ==
    /\ k.pc = "done"
    /\ \A i \in 1..Len(profile) : profile[i].mode \in {"must_have", "irrelevant"}
    /\ Contributing(profile, k.raw) # {}
    /\ \A j \in 1..Len(k.trace) : k.trace[j].kind # "veto"
    /\ \A i \in Contributing(profile, k.raw) :
          k.quality[i] # <<>> => k.quality[i][1] = scorer.max_quality

bound_or(cfg, k, v) ==
    IF Has(cfg, k) /\ k \notin cfg.nulls /\ v # 0 THEN v ELSE cfg.target

bound_get(cfg, k, v) == IF Has(cfg, k) THEN v ELSE cfg.target

(* The nudge of a nice_to_have config's bounds l and u. *)
nudged_lower(cfg, l, eps) ==
    IF cfg.mode = "nice_to_have" /\ l >= cfg.target THEN FSub(cfg.target, eps) ELSE l

nudged_upper(cfg, u, eps) ==
    IF cfg.mode = "nice_to_have" /\ u <= cfg.target THEN FAdd(cfg.target, eps) ELSE u

(* C18 as stated: the bounds of a constructed engine's configs are the     *)
(* nudged `cfg.lower or target` and `cfg.upper or target`: a bound that is *)
(* absent, null or zero is replaced by target.                             *)
C18_BoundsOrTarget ==
    scorer.state = "ready" =>
       \A i \in 1..Len(profile) :
          /\ profile[i].lower =
                nudged_lower(args.profile[i],
                   bound_or(args.profile[i], "lower", args.profile[i].lower), scorer.eps)
          /\ profile[i].upper =
                nudged_upper(args.profile[i],
                   bound_or(args.profile[i], "upper", args.profile[i].upper), scorer.eps)

(* C18, amended: only an absent bound is replaced by target before         *)
(* nudging; a supplied number, zero included, is kept as given; a null     *)
(* bound is not replaced and construction fails on it.                     *)
C18_BoundsDefaultTarget ==
    /\ scorer.state = "ready" =>
          \A i \in 1..Len(profile) :
             /\ profile[i].nulls = {}
             /\ profile[i].lower =
                   nudged_lower(args.profile[i],
                      bound_get(args.profile[i], "lower", args.profile[i].lower),
                      scorer.eps)
             /\ profile[i].upper =
                   nudged_upper(args.profile[i],
                      bound_get(args.profile[i], "upper", args.profile[i].upper),
                      scorer.eps)
    /\ (\E i \in 1..Len(args.profile) :
           IsNull(args.profile[i], "lower") \/ IsNull(args.profile[i], "upper"))
          => scorer.state \in {"new", "ConfigError"}

(* An engine was constructed from a nice_to_have config with target 4 and  *)
(* lower 0, and its lower bound is still 0.                                *)
C18_Witness ==
    /\ scorer.state = "ready"
    /\ \E i \in 1..Len(profile) :
          /\ args.profile[i].mode = "nice_to_have"
          /\ Has(args.profile[i], "lower")
          /\ args.profile[i].lower = 0
          /\ args.profile[i].target > 0
          /\ profile[i].lower = 0

(* The factors of call k whose rating went through the quality normalizer. *)
Rated(k) ==
    {j \in 1..Len(k.trace) :
        k.quality[j] # <<>> /\ k.trace[j].kind \in {"scored", "raised"}
        /\ k.raw[j].kind = "num" /\ ~IsMulti(profile[j])}

(* The ratings the monotonicity of C19 is checked over. *)
Ratings == 0..7

(* C19: for every rating q and every qual_exp >= 0 the quality normalizer  *)
(* returns a value in [quality_floor, 1]: quality_floor for q <= 1, 1 for  *)
(* q >= max_quality, non-decreasing in q, and for qual_exp = 1 the linear  *)
(* quality_floor + (1 - quality_floor) * (q - 1) / (max_quality - 1).      *)
C19_QualityNormalizer ==
    \A c \in DOMAIN calls : \A j \in Rated(calls[c]) :
       /\ ~_qual(calls[c].quality[j][1], scorer).exc
       /\ calls[c].trace[j].kind = "scored"
       /\ calls[c].trace[j].qn = _qual(calls[c].quality[j][1], scorer).v
       /\ scorer.q_floor <= calls[c].trace[j].qn /\ calls[c].trace[j].qn <= ONE
       /\ calls[c].quality[j][1] <= 1 => calls[c].trace[j].qn = scorer.q_floor
       /\ calls[c].quality[j][1] >= scorer.max_quality => calls[c].trace[j].qn = ONE
       /\ \A q \in Ratings :
             q >= calls[c].quality[j][1] => _qual(q, scorer).v >= calls[c].trace[j].qn
       /\ (scorer.qual_exp = ONE /\ calls[c].quality[j][1] \in 1..scorer.max_quality) =>
             calls[c].trace[j].qn =
                scorer.q_floor
                + ((ONE - scorer.q_floor)
                   * (((calls[c].quality[j][1] - 1) * ONE) \div (scorer.max_quality - 1)))
                  \div ONE

(* The multi factors of call k that were evaluated on a collection. *)
Aggregated(k) ==
    {j \in 1..Len(k.trace) :
        /\ profile[j].mode # "irrelevant"
        /\ IsMulti(profile[j])
        /\ k.raw[j].kind = "list"}

(* The values of vals that lie in the band of cfg, in order. *)
Kept(vals, cfg) == SelectSeq(vals, LAMBDA v : ~(v < cfg.lower \/ v > cfg.upper))

(* Two values outside the band of cfg, one on each side. *)
Outliers(cfg) == {FSub(cfg.lower, 1), FAdd(cfg.upper, 2)}

(* C20: the aggregator discards the values outside [lower, upper] before   *)
(* aggregating, whatever the method or decay function: its answer is the   *)
(* answer on the in-band values alone, is unchanged by one more            *)
(* out-of-band value at either end, and is 'no value' exactly when no      *)
(* value lies in the band.                                                 *)
C20_AggregatorFiltersBand ==
    \A c \in DOMAIN calls : \A j \in Aggregated(calls[c]) :
       /\ _aggregate(calls[c].raw[j].v, profile[j]).none
             <=> NoneInBand(calls[c].raw[j].v, profile[j])
       /\ _aggregate(calls[c].raw[j].v, profile[j])
             = _aggregate(Kept(calls[c].raw[j].v, profile[j]), profile[j])
       /\ \A o \in Outliers(profile[j]) :
             /\ _aggregate(Append(calls[c].raw[j].v, o), profile[j])
                   = _aggregate(calls[c].raw[j].v, profile[j])
             /\ _aggregate(<<o>> \o calls[c].raw[j].v, profile[j])
                   = _aggregate(calls[c].raw[j].v, profile[j])
       /\ calls[c].trace[j].r =
             IF NoneInBand(calls[c].raw[j].v, profile[j]) THEN 0
             ELSE _raw(_aggregate(Kept(calls[c].raw[j].v, profile[j]), profile[j]).v,
                       profile[j], scorer)

(* A decay-weighted factor was scored on a collection of two different     *)
(* in-band values between two out-of-band ones.                            *)
C20_Witness ==
    \E c \in DOMAIN calls : \E j \in Aggregated(calls[c]) :
       /\ HasDecay(profile[j])
       /\ calls[c].raw[j].v = <<10, 4, 6>>
       /\ calls[c].trace[j].kind = "scored"
       /\ calls[c].trace[j].r > 0

(* The flat aggregation the specification states for method agg over the   *)
(* ascending in-band values ss with n = Len(ss) >= 1 and k >= 1.           *)
stated_flat(ss, n, agg, nk, fk) ==
    IF agg = "mean" THEN RoundRat(SeqSum(ss), n)
    ELSE IF agg = "median"
      THEN IF n % 2 = 1 THEN ss[(n + 1) \div 2]
           ELSE RoundRat(FAdd(ss[n \div 2], ss[n \div 2 + 1]), 2)
    ELSE IF agg = "min" THEN ss[1]
    ELSE IF agg = "max" THEN ss[n]
    ELSE IF agg = "k_nearest"
      THEN RoundRat(SeqSum(SubSeq(ss, 1, Min(nk, n))), Min(nk, n))
    ELSE RoundRat(SeqSum(SubSeq(ss, n + 1 - Min(fk, n), n)), Min(fk, n))

(* The multi factors of call k evaluated without decay by one of the six   *)
(* stated methods on a collection with an in-band value.                   *)
FlatAggregated(k) ==
    {j \in Aggregated(k) :
        /\ ~HasDecay(profile[j])
        /\ profile[j].aggregation # "percentile"
        /\ ~NoneInBand(k.raw[j].v, profile[j])}

flat_matches(a, vals, cfg) ==
    /\ ~a.exc
    /\ (cfg.nearest_k >= 1 /\ cfg.farthest_k >= 1) =>
          a.v = stated_flat(sorted(Kept(vals, cfg)), Len(Kept(vals, cfg)),
                            cfg.aggregation, cfg.nearest_k, cfg.farthest_k)

(* C21: without decay_function the aggregator returns the stated mean,     *)
(* median, minimum, maximum, mean of the nearest_k smallest or mean of the *)
(* farthest_k largest in-band values, for every nearest_k / farthest_k a   *)
(* validated config can hold.                                              *)
C21_FlatAggregations ==
    \A c \in DOMAIN calls : \A j \in FlatAggregated(calls[c]) :
       flat_matches(_aggregate(calls[c].raw[j].v, profile[j]),
                    calls[c].raw[j].v, profile[j])

(* The multi factors of call k evaluated with decay weighting on a         *)
(* collection with an in-band value.                                       *)
DecayAggregated(k) ==
    {j \in Aggregated(k) :
        HasDecay(profile[j]) /\ ~NoneInBand(k.raw[j].v, profile[j])}

(* The stated weight of value v: f(|v - target| / max(upper - lower, e))   *)
(* for a tiny e, with f linear, quadratic or exponential in rate * d.      *)
stated_distance(v, cfg) ==
    IF FSub(cfg.upper, cfg.lower) >= 1
      THEN (Abs(FSub(v, cfg.target)) * ONE) \div FSub(cfg.upper, cfg.lower)
      ELSE Abs(FSub(v, cfg.target)) * ONE * ONE

stated_rate(cfg) == IF Has(cfg, "decay_rate") THEN cfg.decay_rate ELSE ONE

stated_f(fn, rd) ==
    CASE fn = "exp" -> (ONE * ONE) \div Exp(rd)
      [] fn = "quadratic" -> Max(0, ONE - (rd * rd) \div ONE)
      [] OTHER -> Max(0, ONE - rd)

stated_weights(kept, cfg) ==
    [i \in 1..Len(kept) |->
        stated_f(cfg.decay_function,
                 (stated_rate(cfg) * stated_distance(kept[i], cfg)) \div ONE)]

(* sum(v * w) / sum(w) in floating point, the plain mean when sum(w) = 0. *)
stated_average(kept, w) ==
    IF SeqSum(w) = 0 THEN RoundRat(SeqSum(kept), Len(kept))
    ELSE RoundRat(ONE * weighted_sum(kept, w, Len(kept)), SeqSum(w))

(* C22: with decay_function set the aggregator ignores the configured      *)
(* aggregation method and returns the weighted average of the in-band      *)
(* values under the stated decay weights, and the plain arithmetic mean of *)
(* the in-band values when all the weights are zero.                       *)
C22_DecayWeightedAverage ==
    \A c \in DOMAIN calls : \A j \in DecayAggregated(calls[c]) :
       /\ \A a \in ALLOWED_AGG :
             _aggregate(calls[c].raw[j].v, [profile[j] EXCEPT !.aggregation = a])
                = _aggregate(calls[c].raw[j].v, profile[j])
       /\ _aggregate(calls[c].raw[j].v, profile[j])
             = [none |-> FALSE, exc |-> FALSE,
                v |-> stated_average(Kept(calls[c].raw[j].v, profile[j]),
                         stated_weights(Kept(calls[c].raw[j].v, profile[j]),
                                        profile[j]))]
       /\ calls[c].trace[j].kind = "scored"

(* A decay-weighted factor was scored on two different in-band values      *)
(* whose weights are all zero.                                             *)
C22_Witness ==
    \E c \in DOMAIN calls : \E j \in DecayAggregated(calls[c]) :
       /\ calls[c].raw[j].v = <<2, 12, 8>>
       /\ profile[j].upper = 8
       /\ SeqSum(_decay_weights(<<2, 8>>, profile[j])) = 0
       /\ calls[c].trace[j].kind = "scored"
       /\ calls[c].trace[j].r > 0

(* a lies between the least and the greatest item of the ascending,        *)
(* non-empty sequence ss, and inside the band of cfg.                      *)
between_kept(a, ss, cfg) ==
    /\ ss[1] <= a /\ a <= ss[Len(ss)]
    /\ cfg.lower <= a /\ a <= cfg.upper

(* C27: a value returned by the aggregator lies between the smallest and   *)
(* the largest in-band value, hence inside [lower, upper], so a multi      *)
(* nice_to_have factor with an in-band value gets a raw-match of at least  *)
(* raw_floor.                                                              *)
C27_AggregateInsideBand ==
    \A c \in DOMAIN calls : \A j \in Aggregated(calls[c]) :
       (/\ ~NoneInBand(calls[c].raw[j].v, profile[j])
        /\ ~_aggregate(calls[c].raw[j].v, profile[j]).exc)
       => /\ between_kept(_aggregate(calls[c].raw[j].v, profile[j]).v,
                          sorted(Kept(calls[c].raw[j].v, profile[j])), profile[j])
          /\ profile[j].mode = "nice_to_have"
                => calls[c].trace[j].r >= scorer.r_floor

(* The validator would reject the profile as it stands, or change it. *)
Unvalidated ==
    \/ ~_validate(profile, 1, scorer.eps).ok
    \/ _validate(profile, 1, scorer.eps).profile # profile

(* C23: validation runs once, in the construction that precedes every     *)
(* score_property call; a call neither validates nor changes the profile   *)
(* or the engine (no nudge, no default), and returns the score of the      *)
(* profile as it stands, also when the profile was changed after           *)
(* construction.                                                           *)
C23_ValidatedOnce ==
    /\ [](\A c \in DOMAIN calls : calls[c].pc # "idle" => scorer.state = "ready")
    /\ [][/\ scorer.state # "new" => scorer' = scorer
          /\ calls' # calls => (profile' = profile /\ scorer' = scorer)
          /\ \A c \in DOMAIN calls :
                (calls[c].pc = "loop" /\ calls'[c].pc \notin {"idle", "loop"})
                => calls'[c] = score_property(profile, calls[c].raw,
                                              calls[c].quality, scorer)]_vars

(* A call returned a score from a profile the validator would reject or    *)
(* change.                                                                 *)
C23_Witness ==
    /\ Unvalidated
    /\ \E c \in DOMAIN calls :
          /\ calls[c].pc = "done"
          /\ calls[c] = score_property(profile, calls[c].raw, calls[c].quality, scorer)
          /\ \E j \in 1..Len(calls[c].trace) : calls[c].trace[j].kind = "scored"

(* C24: for every profile and inputs, the score run_calculation records    *)
(* for a property is what score_property returns for the same profile and  *)
(* inputs.                                                                 *)
C24_CalculationIsScoreProperty ==
    \A c \in DOMAIN calls :
       calls[c].pc # "idle"
       => /\ calls[c].pc = score_property(profile, calls[c].raw, calls[c].quality,
                                          scorer).pc
          /\ calls[c].result = score_property(profile, calls[c].raw,
                                              calls[c].quality, scorer).result

(* The factors of call k that run_calculation takes as multi and finds     *)
(* without an in-band value.                                               *)
Sentinelled(k) ==
    {j \in DOMAIN profile :
        /\ j \in args.multi_keys
        /\ k.raw[j].kind = "list"
        /\ NoneInBand(k.raw[j].v, profile[j])}

(* C25: in run_calculation the sentinel upper + 1.0, substituted for a     *)
(* multi factor without an in-band value, has raw-match 0 for every mode,  *)
(* direction and must_have_tolerance.                                      *)
C25_SentinelForcesZero ==
    \A c \in DOMAIN calls :
       calls[c].pc # "idle"
       => \A j \in Sentinelled(calls[c]) :
             /\ calc_raw2(profile[j], calls[c].raw[j], TRUE)
                   = Value(Num(FAdd(profile[j].upper, 1)))
             /\ _raw(FAdd(profile[j].upper, 1), profile[j], scorer) = 0

(* The numbers _raw is probed with. *)
Probes == Floats(0..16)

(* The nice_to_have factors of call k whose raw-match was evaluated, on a   *)
(* number or on the aggregate of a list.                                   *)
NiceScored(k) ==
    {j \in 1..Len(k.trace) :
        /\ profile[j].mode = "nice_to_have"
        /\ k.raw[j].kind = (IF IsMulti(profile[j]) THEN "list" ELSE "num")}

(* The band of cfg is collapsed on the side its decay runs. *)
Collapsed(cfg) ==
    IF cfg.direction < 0 THEN cfg.upper = cfg.target ELSE cfg.lower = cfg.target

(* C26: for every profile accepted by construction, also with              *)
(* margin_epsilon = 0 and a collapsed band, and every number x, the        *)
(* nice_to_have evaluation divides only by a strictly positive             *)
(* denominator, and no nice_to_have factor raises.  (x is a number: NaN,   *)
(* which satisfies no comparison, is not covered.)                         *)
C26_NoDivisionByZero ==
    scorer.state = "ready"
    => /\ \A j \in DOMAIN profile : \A x \in Probes :
             profile[j].mode = "nice_to_have"
             => \A i \in DOMAIN nice_division(x, profile[j].direction,
                                              profile[j].target, profile[j].lower,
                                              profile[j].upper) :
                   nice_division(x, profile[j].direction, profile[j].target,
                                 profile[j].lower, profile[j].upper)[i] > 0
       /\ \A c \in DOMAIN calls : \A j \in NiceScored(calls[c]) :
             calls[c].trace[j].kind = "scored"

(* A factor whose band is collapsed onto the target was scored, with       *)
(* margin_epsilon = 0.                                                     *)
C26_Witness ==
    /\ scorer.state = "ready"
    /\ scorer.eps = 0
    /\ \E c \in DOMAIN calls : \E j \in NiceScored(calls[c]) :
          /\ Collapsed(profile[j])
          /\ calls[c].raw[j] = Num(profile[j].target)
          /\ calls[c].trace[j].r = ONE

(* The must_have factors of call k evaluated on a number under a positive  *)
(* tolerance.                                                              *)
Tolerated(k) ==
    {j \in 1..Len(k.trace) :
        /\ profile[j].mode = "must_have"
        /\ ~IsMulti(profile[j])
        /\ k.raw[j].kind = "num"
        /\ scorer.tol > 0}

(* The end of the tolerance zone of cfg: the float target + tolerance, or  *)
(* target - tolerance for direction +1.                                    *)
zone_end(cfg, tol) ==
    IF cfg.direction < 0 THEN FAdd(cfg.target, tol) ELSE FSub(cfg.target, tol)

(* x lies strictly between the target and the end of the zone. *)
inside_zone(x, cfg, tol) ==
    IF cfg.direction < 0 THEN cfg.target < x /\ x < zone_end(cfg, tol)
    ELSE zone_end(cfg, tol) < x /\ x < cfg.target

(* C28: under a positive tolerance a must_have value at the end of the     *)
(* tolerance zone gets raw-match 0 and vetoes the property; a value        *)
(* strictly inside the zone gets a raw-match strictly between 0 and 1 and  *)
(* does not veto.                                                          *)
C28_ToleranceZoneEnd ==
    \A c \in DOMAIN calls : \A j \in Tolerated(calls[c]) :
       /\ calls[c].raw[j].v[1] = zone_end(profile[j], scorer.tol)
          => /\ calls[c].trace[j].r = 0
             /\ calls[c].trace[j].kind = "veto"
             /\ calls[c].result = 0
       /\ inside_zone(calls[c].raw[j].v[1], profile[j], scorer.tol)
          => /\ 0 < calls[c].trace[j].r /\ calls[c].trace[j].r < ONE
             /\ calls[c].trace[j].kind # "veto"

(* Config cfg is nice_to_have and supplies bound k as a number. *)
NiceSupplies(cfg, k) ==
    /\ {"mode", "target"} \subseteq cfg.keys
    /\ cfg.mode = "nice_to_have"
    /\ Has(cfg, k) /\ ~IsNull(cfg, k)

NotList(prof, raw) ==
    {j \in 1..Len(prof) :
        prof[j].mode # "irrelevant" /\ IsMulti(prof[j]) /\ raw[j].kind = "num"}

(* The raw mapping without the values of those factors. *)
SkipNotList(prof, raw) ==
    [i \in 1..Len(raw) |-> IF i \in NotList(prof, raw) THEN NoRaw ELSE raw[i]]

(* C30: a multi factor whose raw value is present but not a list is        *)
(* skipped: it adds to neither sum and vetoes nothing, also when it is     *)
(* must_have; the call answers as it does without that raw value.          *)
C30_NotListSkipped ==
    \A c \in DOMAIN calls :
       /\ \A j \in NotList(profile, calls[c].raw) :
             j <= Len(calls[c].trace) => calls[c].trace[j].kind = "notlist"
       /\ Ended(calls[c]) =>
             Answer(calls[c]) =
                Answer(score_property(profile, SkipNotList(profile, calls[c].raw),
                                      calls[c].quality, scorer))
       /\ (calls[c].pc = "done" /\ FailingMust(profile, calls[c].raw, scorer) = {})
          => calls[c].total_weight = weight_upto(profile, calls[c].raw, Len(profile))

(* A must_have multi factor was given a number that fails its target, and  *)
(* the call returned a positive score.                                     *)
C30_Witness ==
    \E c \in DOMAIN calls :
       /\ calls[c].pc = "done"
       /\ calls[c].result > 0
       /\ \E j \in NotList(profile, calls[c].raw) :
             /\ profile[j].mode = "must_have"
             /\ _raw(calls[c].raw[j].v[1], profile[j], scorer) = 0
             /\ calls[c].trace[j].kind = "notlist"
====
